---------------------------- MODULE Spec2Model ----------------------------
(***************************************************************************)
(* A model of the duplicate-file finder: the FNV bucket hash and the MD5   *)
(* hex digest (hash.c), the key/value pair (pair.c), the separate-chaining *)
(* hash table (table.c) and the directory scan (duplicates.c).             *)
(*                                                                         *)
(* The specifications of the module:                                       *)
(*   Spec         one table under arbitrary insert / search / remove calls *)
(*   SpecTwin     table_create(0) and table_create(DEFAULT_CAPACITY)       *)
(*                driven by the same calls                                 *)
(*   SpecInserts  one table under table_insert calls only                  *)
(*   SpecScan     main's loop over its path arguments, check_directory and *)
(*                check_file over a small file system                      *)
(*   SpecOwned    the table with its memory, the caller passing memory of  *)
(*                its own                                                  *)
(*   SpecHeap     the same, the caller also passing back the value that    *)
(*                table_search returned                                    *)
(*   SpecHash     one call of hash_from_data                               *)
(*                                                                         *)
(* In Spec, SpecTwin, SpecInserts and SpecScan the table is modelled at    *)
(* the level of values: a chain is the sequence of its pairs from the      *)
(* bucket's sentinel onward, and a Text value passed to table_insert is    *)
(* memory of the caller's, distinct from every payload the table owns      *)
(* (strdup copies it).  Addresses, ownership and the release of memory are *)
(* the matter of SpecOwned and SpecHeap.                                   *)
(* In SpecScan t is main's table `files`, which check_file and             *)
(* check_directory know as `checksums`.                                    *)
(***************************************************************************)
EXTENDS Integers, Sequences, FiniteSets, TLC

(***************************************************************************)
(* Bounds of the model.                                                    *)
(***************************************************************************)
\* table_create is called with capacities 0..MaxCapacity, and the header's
\* DEFAULT_CAPACITY (table.h is not part of the sources) ranges over
\* 1..MaxCapacity.
MaxCapacity == 3
\* The number of distinct keys the calls of Spec and SpecTwin draw from.
NumKeys == 3
\* The number of distinct file contents in the file system of SpecScan.
NumContents == 2

(***************************************************************************)
(* hash.c: 64-bit unsigned arithmetic.  A uint64_t is a sequence of eight  *)
(* bytes, least significant first, so that no intermediate result exceeds  *)
(* the model checker's integers.                                           *)
(***************************************************************************)
U64Bytes == 8

\* FNV_OFFSET_BASIS 0xcbf29ce484222325
FNV_OFFSET_BASIS == <<37, 35, 34, 132, 228, 156, 242, 203>>
\* FNV_PRIME 0x100000001b3
FNV_PRIME == <<179, 1, 0, 0, 0, 1, 0, 0>>

RECURSIVE XorBits(_, _, _)
\* a ^ b on n-bit operands
XorBits(a, b, n) ==
    IF n = 0 THEN 0
    ELSE (((a % 2) + (b % 2)) % 2) + 2 * XorBits(a \div 2, b \div 2, n - 1)

\* `char byte = *((char *)data + i)` converted to uint64_t for `hash ^ byte`:
\* where char is signed a byte of 128 or more is negative and its conversion
\* sets the seven upper bytes to 0xff; where char is unsigned they are 0.
CharToU64(byte, isSigned) ==
    [i \in 1..U64Bytes |->
        IF i = 1 THEN byte
        ELSE IF isSigned /\ byte >= 128 THEN 255 ELSE 0]

Xor64(a, b) == [i \in 1..U64Bytes |-> XorBits(a[i], b[i], 8)]

RECURSIVE ColumnSum(_, _, _, _)
\* sum of a[i] * b[k+1-i] for i in 1..k: the k-th column of a * b
ColumnSum(a, b, k, i) ==
    IF i > k THEN 0 ELSE a[i] * b[k + 1 - i] + ColumnSum(a, b, k, i + 1)

RECURSIVE MulColumns(_, _, _, _)
MulColumns(a, b, k, carry) ==
    IF k > U64Bytes THEN <<>>
    ELSE LET s == ColumnSum(a, b, k, 1) + carry
         IN  <<s % 256>> \o MulColumns(a, b, k + 1, s \div 256)

\* a * b modulo 2^64
Mul64(a, b) == MulColumns(a, b, 1, 0)

RECURSIVE ModHorner(_, _, _, _)
ModHorner(h, m, i, r) ==
    IF i = 0 THEN r ELSE ModHorner(h, m, i - 1, (r * 256 + h[i]) % m)

\* h % m for a uint64_t h and 0 < m
Mod64(h, m) == ModHorner(h, m, U64Bytes, 0)

RECURSIVE HashLoop(_, _, _, _, _)
\* (testing the length of each step's hash has the step evaluated before the
\* next one starts)
HashLoop(data, n, i, hash, isSigned) ==
    IF i > n THEN hash
    ELSE LET xored == Xor64(hash, CharToU64(data[i], isSigned))
             next  == Mul64(xored, FNV_PRIME)
         IN  IF Len(next) = U64Bytes
             THEN HashLoop(data, n, i + 1, next, isSigned)
             ELSE next

\* hash_from_data: for each byte, hash = hash ^ byte, then hash = hash * FNV_PRIME
hash_from_data(data, n, isSigned) ==
    HashLoop(data, n, 1, FNV_OFFSET_BASIS, isSigned)

\* The contents a file of the model may have.
ContentList == <<"hello", "world", "">>
Contents == {ContentList[i] : i \in 1..NumContents}

MD5_DIGEST_LENGTH == 16

\* MD5_Init, MD5_Update over every chunk read, MD5_Final: libcrypto's digest
\* of the whole content, whatever the chunks
MD5(content) ==
    IF content = "hello"
    THEN <<93, 65, 64, 42, 188, 75, 42, 118, 185, 113, 157, 145, 16, 23, 197, 146>>
    ELSE IF content = "world"
    THEN <<125, 121, 48, 55, 160, 118, 1, 134, 87, 75, 2, 130, 242, 244, 53, 231>>
    ELSE <<212, 29, 140, 217, 143, 0, 178, 4, 233, 128, 9, 152, 236, 248, 66, 126>>

\* one digit of "%02x"
HexDigit(d) == IF d < 10 THEN 48 + d ELSE 87 + d

RECURSIVE HexLoop(_, _)
\* `for (i = 0; i < MD5_DIGEST_LENGTH; i++) sprintf(&hexdigest[2*i], "%02x", out[i])`
HexLoop(digest, i) ==
    IF i > MD5_DIGEST_LENGTH THEN <<>>
    ELSE <<HexDigit(digest[i] \div 16), HexDigit(digest[i] % 16)>>
         \o HexLoop(digest, i + 1)

\* the hexdigest hash_from_file leaves for a file of this content: 32
\* characters, as their codes
HexDigest(content) == HexLoop(MD5(content), 1)

DigestKeys == {HexDigest(ContentList[i]) : i \in 1..Len(ContentList)}

(***************************************************************************)
(* pair.c, table.c: the data.                                              *)
(*   Value  the union { number, string }: [string |-> s] or [number |-> n] *)
(*   Pair   [key, value, type]; its `next` is the rest of the chain        *)
(*   Table  [capacity, size, buckets], buckets[i] the chain that hangs off *)
(*          the sentinel of bucket i, head first                           *)
(***************************************************************************)
\* the Type enumeration; STRING is a word of TLA+, so the constant is Type_STRING
Type_STRING == "STRING"
NUMBER == "NUMBER"

\* the null pointer table_search returns for a key that is not there
NULL == [null |-> TRUE]

\* what the process gets for `hash % capacity` with capacity 0
SIGFPE == [signal |-> "SIGFPE"]

VARIABLES
    t,                 \* the table under test
    call,              \* the last call made on it, with what it returned
    pre,               \* the table as it was when that call was made
    ref,               \* per key, the value of its last insert not followed
                       \* by a remove of it (NULL if none)
    charSigned,        \* whether the build's plain char is signed
    DEFAULT_CAPACITY,  \* table.h's default capacity
    t0,                \* SpecTwin: the table made by table_create(0)
    ret0,              \* SpecTwin: what the last call returned on t0
    fs,                \* SpecScan: the file system (contents, permissions)
    flags,             \* SpecScan: argv's leading flag arguments
    options,           \* SpecScan: main's Options, as parsed from flags
    paths,             \* SpecScan: argv's path arguments
    argi,              \* SpecScan: main's loop index i into paths, from 1
    stack,             \* SpecScan: the active check_directory calls, the
                       \* innermost last
    total,             \* SpecScan: main's count
    out,               \* SpecScan: the lines written to stdout
    err,               \* SpecScan: the lines written to stderr
    log,               \* SpecScan: the files check_file was called on, in
                       \* order, with how each was classified
    pc,                \* SpecScan: "main" in main's loop, "done" after it
    handles,           \* SpecScan: the DIR and FILE streams that are open
    heap               \* SpecHeap: the memory malloc, calloc and strdup
                       \* have handed out, and the caller's key buffer

tableVars == <<t, call, pre, ref, charSigned, DEFAULT_CAPACITY, t0, ret0>>
scanVars == <<fs, flags, options, paths, argi, stack, total, out, err, log, pc>>
heapVars == <<handles, heap>>

\* Spec and SpecTwin run no scan
NoScan ==
    /\ fs = <<>> /\ flags = <<>> /\ options = <<>> /\ paths = <<>>
    /\ argi = 0 /\ stack = <<>> /\ total = 0
    /\ out = <<>> /\ err = <<>> /\ log = <<>> /\ pc = "none"

\* Spec, SpecTwin and SpecScan keep no account of the memory
NoHeap == heap = <<>>

\* The keys of Spec and SpecTwin: "a", "b", "\xe4", "c", "d".  With two
\* buckets "b" and "\xe4" share one; with three, "a" and "b" do, and "\xe4"
\* falls in bucket 2 or 0 as char is signed or not.
KeyList == << <<97>>, <<98>>, <<228>>, <<99>>, <<100>> >>
Keys == {KeyList[i] : i \in 1..NumKeys}

AllKeys == Keys \cup DigestKeys

(***************************************************************************)
(* pair.c                                                                  *)
(***************************************************************************)
\* pair_create: a node with copies of key and value, linked before `next`;
\* the result is the chain that starts at the new node.
pair_create(key, value, next, type) ==
    LET p == [key   |-> key,
              value |-> IF type = Type_STRING THEN [string |-> value.string]
                        ELSE value,
              type  |-> type]
    IN  <<p>> \o next

\* pair_update without `p->type = type`
pair_update_keeps_type(p, value, type) ==
    [p EXCEPT !.value = IF type = Type_STRING THEN [string |-> value.string]
                        ELSE value]

\* pair_update: the value replaced in place, the type set to the new type
pair_update(p, value, type) ==
    [p EXCEPT !.value = IF type = Type_STRING THEN [string |-> value.string]
                        ELSE value,
              !.type  = type]

\* pair_delete that releases the rest of the chain whatever `recursive` is
pair_delete_whole_chain(chain, i, recursive) ==
    IF i = 0 THEN chain ELSE SubSeq(chain, 1, i - 1)

\* pair_delete(p, false) releases the one pair; pair_delete(p, true) releases
\* the chain from p on.  What is left of the chain `chain` whose node at
\* position i is handed to pair_delete.
pair_delete(chain, i, recursive) ==
    IF i = 0 THEN chain
    ELSE IF recursive THEN SubSeq(chain, 1, i - 1)
    ELSE SubSeq(chain, 1, i - 1) \o SubSeq(chain, i + 1, Len(chain))

(***************************************************************************)
(* table.c                                                                 *)
(***************************************************************************)
\* table_create without the default: the capacity as passed
table_create_as_passed(capacity) ==
    [capacity |-> capacity,
     size     |-> 0,
     buckets  |-> [i \in 0..(capacity - 1) |-> <<>>]]

\* table_create: capacity 0 becomes DEFAULT_CAPACITY; calloc leaves every
\* bucket's next NULL
table_create(capacity) ==
    LET cap == IF capacity = 0 THEN DEFAULT_CAPACITY ELSE capacity
    IN  [capacity |-> cap,
         size     |-> 0,
         buckets  |-> [i \in 0..(cap - 1) |-> <<>>]]

\* hash_from_data(key, strlen(key)) for every key the model uses and both
\* signednesses of char, computed once
HashOfKey ==
    {<<k, s, hash_from_data(k, Len(k), s)>> : k \in AllKeys, s \in BOOLEAN}

\* hash_from_data(key, strlen(key)) % t->capacity
Bucket(tab, key) ==
    LET h == CHOOSE e \in HashOfKey : e[1] = key /\ e[2] = charSigned
    IN  Mod64(h[3], tab.capacity)

RECURSIVE ChainFind(_, _, _)
\* `for (curr = bucket.next; curr; curr = curr->next) if (strcmp(...) == 0)`:
\* the position, from i on, of the first pair with this key; 0 if none
ChainFind(chain, key, i) ==
    IF i > Len(chain) THEN 0
    ELSE IF chain[i].key = key THEN i
    ELSE ChainFind(chain, key, i + 1)

\* table_insert whose loop looks at the head of the chain only
table_insert_head_only(tab, key, value, type) ==
    LET bucket == Bucket(tab, key)
        chain  == tab.buckets[bucket]
        curr   == IF chain # <<>> /\ chain[1].key = key THEN 1 ELSE 0
    IN  IF curr # 0
        THEN [tab EXCEPT !.buckets[bucket][curr] =
                             pair_update(chain[curr], value, type)]
        ELSE [tab EXCEPT !.buckets[bucket] =
                             pair_create(key, value, chain, type),
                         !.size = @ + 1]

\* table_insert that links a new pair at the end of the chain
table_insert_at_tail(tab, key, value, type) ==
    LET bucket == Bucket(tab, key)
        chain  == tab.buckets[bucket]
        curr   == ChainFind(chain, key, 1)
    IN  IF curr # 0
        THEN [tab EXCEPT !.buckets[bucket][curr] =
                             pair_update(chain[curr], value, type)]
        ELSE [tab EXCEPT !.buckets[bucket] =
                             chain \o pair_create(key, value, <<>>, type),
                         !.size = @ + 1]

\* table_insert: update the pair with this key, or link a new pair at the
\* head of the bucket and count it
table_insert(tab, key, value, type) ==
    LET bucket == Bucket(tab, key)
        chain  == tab.buckets[bucket]
        curr   == ChainFind(chain, key, 1)
    IN  IF curr # 0
        THEN [tab EXCEPT !.buckets[bucket][curr] =
                             pair_update(chain[curr], value, type)]
        ELSE [tab EXCEPT !.buckets[bucket] =
                             pair_create(key, value, chain, type),
                         !.size = @ + 1]

\* table_search that returns the head of the bucket without comparing keys
table_search_any_in_bucket(tab, key) ==
    LET chain == tab.buckets[Bucket(tab, key)]
    IN  IF chain # <<>> THEN chain[1].value ELSE NULL

\* table_search: the value of the pair with this key, or NULL
table_search(tab, key) ==
    LET chain == tab.buckets[Bucket(tab, key)]
        curr  == ChainFind(chain, key, 1)
    IN  IF curr # 0 THEN chain[curr].value ELSE NULL

\* table_remove without `t->size--`
table_remove_keeps_size(tab, key) ==
    LET bucket == Bucket(tab, key)
        chain  == tab.buckets[bucket]
        curr   == ChainFind(chain, key, 1)
    IN  IF curr # 0
        THEN [t   |-> [tab EXCEPT !.buckets[bucket] =
                                      pair_delete(chain, curr, FALSE)],
              ret |-> TRUE]
        ELSE [t |-> tab, ret |-> FALSE]

\* table_remove that relinks the sentinel instead of the predecessor:
\* `t->buckets[bucket].next = curr->next`
table_remove_relinks_sentinel(tab, key) ==
    LET bucket == Bucket(tab, key)
        chain  == tab.buckets[bucket]
        curr   == ChainFind(chain, key, 1)
    IN  IF curr # 0
        THEN [t   |-> [tab EXCEPT !.buckets[bucket] =
                                      SubSeq(chain, curr + 1, Len(chain)),
                                  !.size = @ - 1],
              ret |-> TRUE]
        ELSE [t |-> tab, ret |-> FALSE]

\* table_remove: unlink and release the pair with this key; the table
\* afterwards and the value returned
table_remove(tab, key) ==
    LET bucket == Bucket(tab, key)
        chain  == tab.buckets[bucket]
        curr   == ChainFind(chain, key, 1)
    IN  IF curr # 0
        THEN [t   |-> [tab EXCEPT !.buckets[bucket] =
                                      pair_delete(chain, curr, FALSE),
                                  !.size = @ - 1],
              ret |-> TRUE]
        ELSE [t |-> tab, ret |-> FALSE]

(***************************************************************************)
(* The calls of Spec and SpecTwin.                                         *)
(***************************************************************************)
Texts == {"x", "y"}
Numbers == {-7}
\* the (value, type) arguments of table_insert
ValueArgs ==
    {[value |-> [string |-> s], type |-> Type_STRING] : s \in Texts}
    \cup {[value |-> [number |-> n], type |-> NUMBER] : n \in Numbers}

NoArg == [none |-> TRUE]

\* One call on a table: the table afterwards and what the call returned.
\* `hash % t->capacity` is the first thing each does.
Apply(tab, c) ==
    IF tab.capacity = 0 THEN [t |-> tab, ret |-> SIGFPE]
    ELSE IF c.op = "insert"
         THEN [t |-> table_insert(tab, c.key, c.value, c.type), ret |-> NoArg]
    ELSE IF c.op = "search"
         THEN [t |-> tab, ret |-> table_search(tab, c.key)]
    ELSE table_remove(tab, c.key)

InsertCall(k, a) == [op |-> "insert", key |-> k, value |-> a.value, type |-> a.type]
SearchCall(k) == [op |-> "search", key |-> k, value |-> NoArg, type |-> NoArg]
RemoveCall(k) == [op |-> "remove", key |-> k, value |-> NoArg, type |-> NoArg]
CreateCall == [op |-> "create", key |-> NoArg, value |-> NoArg, type |-> NoArg,
               ret |-> NoArg]

\* the reference map after the call
RefAfter(c) ==
    IF c.op = "insert" THEN [ref EXCEPT ![c.key] = c.value]
    ELSE IF c.op = "remove" THEN [ref EXCEPT ![c.key] = NULL]
    ELSE ref

Do(c) ==
    LET r == Apply(t, c)
    IN  /\ t' = r.t
        /\ call' = [op |-> c.op, key |-> c.key, value |-> c.value,
                    type |-> c.type, ret |-> r.ret]
        /\ pre' = t
        /\ ref' = RefAfter(c)

Insert == \E k \in Keys, a \in ValueArgs : Do(InsertCall(k, a))
Search == \E k \in Keys : Do(SearchCall(k))
Remove == \E k \in Keys : Do(RemoveCall(k))

Init ==
    /\ charSigned \in BOOLEAN
    /\ DEFAULT_CAPACITY = 1
    /\ \E capacity \in 1..MaxCapacity : t = table_create(capacity)
    /\ call = CreateCall
    /\ pre = t
    /\ ref = [k \in Keys |-> NULL]
    /\ t0 = NoArg
    /\ ret0 = NoArg
    /\ NoScan
    /\ handles = 0 /\ NoHeap

Next ==
    \/ Insert /\ UNCHANGED <<charSigned, DEFAULT_CAPACITY, t0, ret0, scanVars, heapVars>>
    \/ Search /\ UNCHANGED <<charSigned, DEFAULT_CAPACITY, t0, ret0, scanVars, heapVars>>
    \/ Remove /\ UNCHANGED <<charSigned, DEFAULT_CAPACITY, t0, ret0, scanVars, heapVars>>

vars == <<tableVars, scanVars, heapVars>>

Spec == Init /\ [][Next]_vars

(***************************************************************************)
(* SpecTwin: the same calls on table_create(DEFAULT_CAPACITY), which is t, *)
(* and on table_create(0), which is t0.                                    *)
(***************************************************************************)
TwinDo(c) ==
    LET r0 == Apply(t0, c)
    IN  /\ Do(c)
        /\ t0' = r0.t
        /\ ret0' = r0.ret

TwinInsert == \E k \in Keys, a \in ValueArgs : TwinDo(InsertCall(k, a))
TwinSearch == \E k \in Keys : TwinDo(SearchCall(k))
TwinRemove == \E k \in Keys : TwinDo(RemoveCall(k))

InitTwin ==
    /\ charSigned \in BOOLEAN
    /\ DEFAULT_CAPACITY \in 1..MaxCapacity
    /\ t = table_create(DEFAULT_CAPACITY)
    /\ t0 = table_create(0)
    /\ call = CreateCall
    /\ ret0 = NoArg
    /\ pre = t
    /\ ref = [k \in Keys |-> NULL]
    /\ NoScan
    /\ handles = 0 /\ NoHeap

NextTwin ==
    \/ TwinInsert /\ UNCHANGED <<charSigned, DEFAULT_CAPACITY, scanVars, heapVars>>
    \/ TwinSearch /\ UNCHANGED <<charSigned, DEFAULT_CAPACITY, scanVars, heapVars>>
    \/ TwinRemove /\ UNCHANGED <<charSigned, DEFAULT_CAPACITY, scanVars, heapVars>>

SpecTwin == InitTwin /\ [][NextTwin]_vars

(***************************************************************************)
(* What the properties below read off a table.                             *)
(***************************************************************************)
\* the entries reachable from the buckets: <<bucket, position in its chain>>
Entries(tab) ==
    UNION {{<<b, i>> : i \in DOMAIN tab.buckets[b]} : b \in DOMAIN tab.buckets}

PairAt(tab, e) == tab.buckets[e[1]][e[2]]

\* the key is in some chain of the table, whatever the bucket
Present(tab, key) == \E e \in Entries(tab) : PairAt(tab, e).key = key

RECURSIVE Without(_, _)
\* the chain without the pairs that have this key, the others in their order
Without(chain, key) ==
    IF chain = <<>> THEN <<>>
    ELSE IF Head(chain).key = key THEN Without(Tail(chain), key)
    ELSE <<Head(chain)>> \o Without(Tail(chain), key)

(***************************************************************************)
(* C1.  After any sequence of table_insert, table_search and table_remove  *)
(* calls on a table made by table_create with a capacity of 1 or more, the *)
(* size field equals the number of entries reachable from all the chains.  *)
(***************************************************************************)
C1_SizeCountsEntries == t.size = Cardinality(Entries(t))

\* a remove has just taken one of three entries out
C1_Witness ==
    /\ call.op = "remove" /\ call.ret = TRUE
    /\ pre.size = 3 /\ t.size = 2

(***************************************************************************)
(* C2.  In every state reachable by table_insert and table_remove calls no *)
(* key occurs in more than one entry across all the chains.                *)
(***************************************************************************)
C2_KeysUnique ==
    \A e1, e2 \in Entries(t) :
        PairAt(t, e1).key = PairAt(t, e2).key => e1 = e2

\* a key that was not there has just been inserted into a bucket it shares
\* with another key, in a table of more than one bucket
C2_Witness ==
    /\ call.op = "insert" /\ ~Present(pre, call.key)
    /\ t.capacity >= 2
    /\ Len(t.buckets[Bucket(t, call.key)]) >= 2

(***************************************************************************)
(* C3.  table_insert(K, V2) on a key K that is in the table leaves size as *)
(* it was, and table_search(K) then returns V2, the pair's type being the  *)
(* type that was passed.                                                   *)
(***************************************************************************)
C3_UpdateReplacesValue ==
    (call.op = "insert" /\ Present(pre, call.key)) =>
        /\ t.size = pre.size
        /\ table_search(t, call.key) = call.value
        /\ \A e \in Entries(t) :
               PairAt(t, e).key = call.key => PairAt(t, e).type = call.type

\* the update has just changed a Text value to a Number
C3_Witness ==
    /\ call.op = "insert" /\ call.type = NUMBER
    /\ \E e \in Entries(pre) :
           PairAt(pre, e).key = call.key /\ PairAt(pre, e).type = Type_STRING
    /\ t.size >= 2

(***************************************************************************)
(* C4.  After table_insert(K, V), table_search(K) returns V, and goes on   *)
(* returning V through any later inserts and removes of other keys, keys   *)
(* of K's bucket included.  ref[K] is V from that insert until K's next    *)
(* insert or remove.                                                       *)
(***************************************************************************)
C4_RoundTrip ==
    \A k \in Keys : ref[k] # NULL => table_search(t, k) = ref[k]

\* K is in the table and another key of K's bucket has just been removed
C4_Witness ==
    \E k \in Keys :
        /\ ref[k] # NULL
        /\ call.op = "remove" /\ call.ret = TRUE /\ call.key # k
        /\ t.capacity >= 2
        /\ Bucket(t, k) = Bucket(t, call.key)

(***************************************************************************)
(* C5.  table_search on any key, and table_remove on a key that is not in  *)
(* the table, leave size and every chain as they were; for a key that is   *)
(* not there table_search returns NULL and table_remove returns false.     *)
(***************************************************************************)
C5_AbsentKeyFrame ==
    /\ call.op = "search" =>
           /\ t = pre
           /\ ~Present(pre, call.key) => call.ret = NULL
    /\ (call.op = "remove" /\ ~Present(pre, call.key)) =>
           /\ t = pre
           /\ call.ret = FALSE

\* a search has just missed in a bucket that holds other keys
C5_Witness ==
    /\ call.op = "search" /\ ~Present(pre, call.key)
    /\ t.buckets[Bucket(t, call.key)] # <<>>
    /\ t.size >= 2

(***************************************************************************)
(* C6.  table_remove(K) on a key K that is in the table returns true,      *)
(* takes one off size, makes table_search(K) return NULL, and leaves every *)
(* chain with its other pairs, their values and their order.               *)
(***************************************************************************)
C6_RemoveUnlinksOne ==
    (call.op = "remove" /\ Present(pre, call.key)) =>
        /\ call.ret = TRUE
        /\ t.size = pre.size - 1
        /\ table_search(t, call.key) = NULL
        /\ DOMAIN t.buckets = DOMAIN pre.buckets
        /\ \A b \in DOMAIN pre.buckets :
               t.buckets[b] = Without(pre.buckets[b], call.key)

\* the pair removed was the middle one of a chain of three
C6_Witness ==
    /\ call.op = "remove" /\ call.ret = TRUE
    /\ LET chain == pre.buckets[Bucket(pre, call.key)]
       IN  Len(chain) = 3 /\ chain[2].key = call.key

(***************************************************************************)
(* C7.  table_create(0) and table_create(DEFAULT_CAPACITY), given the same *)
(* calls, return the same to every search and remove and have the same     *)
(* size after every call.                                                  *)
(***************************************************************************)
C7_DefaultCapacityTwin ==
    /\ t0.size = t.size
    /\ call.op # "create" => ret0 = call.ret

\* both tables have just found and removed a key, and still hold another
C7_Witness ==
    /\ call.op = "remove" /\ call.ret = TRUE /\ ret0 = TRUE
    /\ t0.size >= 1

(***************************************************************************)
(* SpecScan: the file system.  A path is the sequence of its components,   *)
(* "/" first if it is absolute; the process runs in /w.                    *)
(*                                                                         *)
(*     /w/r/a          file        /w/r/s/t      directory                 *)
(*     /w/r/s          directory   /w/r/s/t/b    file                      *)
(*     /w/r/s/a        file        /w/a          directory, in some runs   *)
(***************************************************************************)
Nodes == 1..9
NodeName == <<"/", "w", "r", "a", "s", "a", "t", "b", "a">>
NodeParent == <<0, 1, 2, 3, 3, 5, 5, 7, 2>>
NodeKind == <<"dir", "dir", "dir", "file", "dir", "file", "dir", "file", "dir">>
FsRoot == 1
Cwd == 2
Optional == 9
NoNode == 0

Files == {n \in Nodes : NodeKind[n] = "file"}
Dirs == {n \in Nodes : NodeKind[n] = "dir"}
\* the directories the scan may find it cannot open
ScanDirs == {3, 5, 7}

\* the entry of this name in the directory, NoNode if there is none
Child(dir, name) ==
    LET found == {n \in fs.exists : NodeParent[n] = dir /\ NodeName[n] = name}
    IN  IF found = {} THEN NoNode ELSE CHOOSE n \in found : TRUE

RECURSIVE Walk(_, _, _)
Walk(node, p, i) ==
    IF i > Len(p) THEN node
    ELSE IF node = NoNode \/ NodeKind[node] # "dir" THEN NoNode
    ELSE Walk(Child(node, p[i]), p, i + 1)

\* what a path names: absolute paths from /, the others from the working
\* directory
Resolve(p) ==
    IF p = <<>> THEN NoNode
    ELSE IF p[1] = "/" THEN Walk(FsRoot, p, 2)
    ELSE Walk(Cwd, p, 1)

RECURSIVE AbsPath(_)
AbsPath(node) ==
    IF node = FsRoot THEN <<"/">>
    ELSE AbsPath(NodeParent[node]) \o <<NodeName[node]>>

\* realpath(root, pathBuf)
realpath(p) == IF Resolve(p) = NoNode THEN NULL ELSE AbsPath(Resolve(p))

\* is_directory: stat fails, or S_ISDIR(s.st_mode)
is_directory(p) ==
    IF Resolve(p) = NoNode THEN FALSE ELSE NodeKind[Resolve(p)] = "dir"

\* opendir(root) returns a stream
opendir(p) == is_directory(p) /\ Resolve(p) \in fs.openable

\* the d_name of the entries readdir returns, "." and ".." left out (the
\* loop of check_directory skips them)
DirNames(p) == {NodeName[n] : n \in {m \in fs.exists : NodeParent[m] = Resolve(p)}}

\* fopen(path, "r") returns a stream
fopen(p) == Resolve(p) \in Files /\ Resolve(p) \in fs.readable

(***************************************************************************)
(* hash.c: hash_from_file                                                  *)
(***************************************************************************)
\* hash_from_file with `if (file == NULL) return false` left out: the digest
\* of nothing read
hash_from_file_ignores_fopen(p) ==
    IF fopen(p)
    THEN [ok |-> TRUE, hexdigest |-> HexDigest(fs.content[Resolve(p)]),
          streams |-> 0]
    ELSE [ok |-> TRUE, hexdigest |-> HexDigest(""), streams |-> 0]

\* hash_from_file without its fclose
hash_from_file_without_fclose(p) ==
    IF fopen(p)
    THEN [ok |-> TRUE, hexdigest |-> HexDigest(fs.content[Resolve(p)]),
          streams |-> 1]
    ELSE [ok |-> FALSE, hexdigest |-> NoArg, streams |-> 0]

\* hash_from_file: false if the file cannot be opened, else true with the
\* hexdigest of all it reads.  streams is the FILE streams it leaves open:
\* none was opened if fopen failed, and fclose(file) follows the last fread
hash_from_file(p) ==
    IF fopen(p)
    THEN [ok |-> TRUE, hexdigest |-> HexDigest(fs.content[Resolve(p)]),
          streams |-> 0]
    ELSE [ok |-> FALSE, hexdigest |-> NoArg, streams |-> 0]

(***************************************************************************)
(* duplicates.c                                                            *)
(***************************************************************************)
\* the line check_file prints for a duplicate
DuplicateLine(p, original) == [path |-> p, of |-> original]

\* check_file that inserts its path also when the digest is already there
check_file_always_inserts(p, checksums, opts) ==
    LET h == hash_from_file(p)
        v == table_search(checksums, h.hexdigest)
    IN  IF ~h.ok
        THEN [ret |-> 0, checksums |-> checksums, out |-> <<>>,
              class |-> "Unreadable", of |-> NoArg, inserted |-> FALSE]
        ELSE IF v # NULL
        THEN [ret |-> 1,
              checksums |-> table_insert(checksums, h.hexdigest,
                                         [string |-> p], Type_STRING),
              out |-> IF ~opts.count /\ ~opts.quiet
                      THEN <<DuplicateLine(p, v.string)>> ELSE <<>>,
              class |-> "Duplicate", of |-> v.string, inserted |-> TRUE]
        ELSE [ret |-> 0,
              checksums |-> table_insert(checksums, h.hexdigest,
                                         [string |-> p], Type_STRING),
              out |-> <<>>,
              class |-> "Original", of |-> NoArg, inserted |-> TRUE]

\* check_file that prints its line for a duplicate whatever the options
check_file_reports_always(p, checksums, opts) ==
    LET h == hash_from_file(p)
        v == table_search(checksums, h.hexdigest)
    IN  IF ~h.ok
        THEN [ret |-> 0, checksums |-> checksums, out |-> <<>>,
              class |-> "Unreadable", of |-> NoArg, inserted |-> FALSE]
        ELSE IF v # NULL
        THEN [ret |-> 1, checksums |-> checksums,
              out |-> <<DuplicateLine(p, v.string)>>,
              class |-> "Duplicate", of |-> v.string, inserted |-> FALSE]
        ELSE [ret |-> 0,
              checksums |-> table_insert(checksums, h.hexdigest,
                                         [string |-> p], Type_STRING),
              out |-> <<>>,
              class |-> "Original", of |-> NoArg, inserted |-> TRUE]

\* check_file: what it returns, the table and the output it leaves, and
\* which of its branches ran (class: the file is unreadable, a duplicate of
\* the path `of`, or an original; inserted: table_insert was called)
check_file(p, checksums, opts) ==
    LET h == hash_from_file(p)
        v == table_search(checksums, h.hexdigest)
    IN  IF ~h.ok
        THEN [ret |-> 0, checksums |-> checksums, out |-> <<>>,
              class |-> "Unreadable", of |-> NoArg, inserted |-> FALSE]
        ELSE IF v # NULL /\ ~opts.count /\ ~opts.quiet
        THEN [ret |-> 1, checksums |-> checksums,
              out |-> <<DuplicateLine(p, v.string)>>,
              class |-> "Duplicate", of |-> v.string, inserted |-> FALSE]
        ELSE IF v # NULL /\ (opts.quiet \/ opts.count)
        THEN [ret |-> 1, checksums |-> checksums, out |-> <<>>,
              class |-> "Duplicate", of |-> v.string, inserted |-> FALSE]
        ELSE \* v == NULL: strdup(path), table_insert, free
             [ret |-> 0,
              checksums |-> table_insert(checksums, h.hexdigest,
                                         [string |-> p], Type_STRING),
              out |-> <<>>,
              class |-> "Original", of |-> NoArg, inserted |-> TRUE]

\* table_delete releases every chain and the table, and returns NULL
table_delete(tab) == NULL

\* main's switch over the flags: 'c' sets count, 'q' sets quiet
ParseFlags(fl) ==
    [count |-> \E i \in DOMAIN fl : fl[i] = "-c",
     quiet |-> \E i \in DOMAIN fl : fl[i] = "-q"]

\* argind after the flags: table_create(argind)
Argind(fl) == 1 + Len(fl)

\* check_directory's currPath for the entry d_name: root/d_name, or
\* realpath(root)/d_name if the bare d_name names a directory
CurrPath(frame, name) ==
    IF is_directory(<<name>>) THEN frame.path \o <<name>>
    ELSE frame.root \o <<name>>

\* a check_directory call after its opendir: the root it was given, its
\* realpath, the entries readdir has yet to return, and its count
Frame(root) ==
    [root |-> root, path |-> realpath(root), todo |-> DirNames(root), count |-> 0]

UnableToOpen(root) == [unable |-> root]

\* the file check_file has just been called on: the path it was given, the
\* node that path names, what it returned and how it classified the file
LogEntry(p, r) ==
    [path |-> p, node |-> Resolve(p), ret |-> r.ret, class |-> r.class, of |-> r.of]

StepCall(op, p, r) ==
    [op |-> op, key |-> p, value |-> NoArg, type |-> NoArg, ret |-> r]

\* the first path table_insert stored under each digest
RefAfterFile(p, r) ==
    LET hexdigest == hash_from_file(p).hexdigest
    IN  IF r.inserted /\ ref[hexdigest] = NULL
        THEN [ref EXCEPT ![hexdigest] = [string |-> p]]
        ELSE ref

\* the effect of one check_file call on everything but the counts
FileStep(p) ==
    LET r == check_file(p, t, options)
    IN  /\ t' = r.checksums
        /\ pre' = t
        /\ call' = StepCall("check_file", p, r.ret)
        /\ ref' = RefAfterFile(p, r)
        /\ out' = out \o r.out
        /\ log' = Append(log, LogEntry(p, r))
        /\ handles' = handles + hash_from_file(p).streams
        /\ UNCHANGED err

\* main: `count += check_file(path[i], files, flags)`
MainFile ==
    /\ pc = "main" /\ stack = <<>> /\ argi <= Len(paths)
    /\ ~is_directory(paths[argi])
    /\ argi' = argi + 1
    /\ total' = total + check_file(paths[argi], t, options).ret
    /\ FileStep(paths[argi])
    /\ UNCHANGED <<stack, pc>>

\* main: `count += check_directory(path[i], files, flags)`, up to the first
\* readdir; a directory that cannot be opened is reported and adds 0
MainDir ==
    /\ pc = "main" /\ stack = <<>> /\ argi <= Len(paths)
    /\ is_directory(paths[argi])
    /\ pre' = t
    /\ IF opendir(paths[argi])
       THEN /\ stack' = <<Frame(paths[argi])>>
            /\ call' = StepCall("opendir", paths[argi], TRUE)
            /\ handles' = handles + 1
            /\ UNCHANGED <<argi, err>>
       ELSE /\ err' = Append(err, UnableToOpen(paths[argi]))
            /\ call' = StepCall("opendir", paths[argi], FALSE)
            /\ argi' = argi + 1
            /\ UNCHANGED <<stack, handles>>
    /\ UNCHANGED <<t, ref, total, out, log, pc>>

\* check_directory: readdir returns an entry that is no directory
EntryFile ==
    /\ stack # <<>>
    /\ \E name \in stack[Len(stack)].todo :
         LET top == stack[Len(stack)]
             currPath == CurrPath(top, name)
         IN  /\ ~is_directory(currPath)
             /\ stack' = [stack EXCEPT ![Len(stack)] =
                   [top EXCEPT !.todo = @ \ {name},
                               !.count = @ + check_file(currPath, t, options).ret]]
             /\ FileStep(currPath)
    /\ UNCHANGED <<argi, total, pc>>

\* check_directory that gives up on its own directory when an entry of it
\* cannot be opened
EntryDir_stops_at_unopenable ==
    /\ stack # <<>>
    /\ \E name \in stack[Len(stack)].todo :
         LET top == stack[Len(stack)]
             currPath == CurrPath(top, name)
             rest == [stack EXCEPT ![Len(stack)] = [top EXCEPT !.todo = @ \ {name}]]
         IN  /\ is_directory(currPath)
             /\ IF opendir(currPath)
                THEN /\ stack' = Append(rest, Frame(currPath))
                     /\ call' = StepCall("opendir", currPath, TRUE)
                     /\ handles' = handles + 1
                     /\ UNCHANGED err
                ELSE /\ stack' = [stack EXCEPT ![Len(stack)] = [top EXCEPT !.todo = {}]]
                     /\ err' = Append(err, UnableToOpen(currPath))
                     /\ call' = StepCall("opendir", currPath, FALSE)
                     /\ UNCHANGED handles
    /\ pre' = t
    /\ UNCHANGED <<t, ref, argi, total, out, log, pc>>

\* check_directory: readdir returns an entry that is a directory; the
\* recursive call, up to its first readdir
EntryDir ==
    /\ stack # <<>>
    /\ \E name \in stack[Len(stack)].todo :
         LET top == stack[Len(stack)]
             currPath == CurrPath(top, name)
             rest == [stack EXCEPT ![Len(stack)] = [top EXCEPT !.todo = @ \ {name}]]
         IN  /\ is_directory(currPath)
             /\ IF opendir(currPath)
                THEN /\ stack' = Append(rest, Frame(currPath))
                     /\ call' = StepCall("opendir", currPath, TRUE)
                     /\ handles' = handles + 1
                     /\ UNCHANGED err
                ELSE /\ stack' = rest
                     /\ err' = Append(err, UnableToOpen(currPath))
                     /\ call' = StepCall("opendir", currPath, FALSE)
                     /\ UNCHANGED handles
    /\ pre' = t
    /\ UNCHANGED <<t, ref, argi, total, out, log, pc>>

\* check_directory whose caller drops what the recursive call returns
DirReturn_drops_count ==
    /\ stack # <<>> /\ stack[Len(stack)].todo = {}
    /\ LET top == stack[Len(stack)]
       IN  IF Len(stack) = 1
           THEN /\ total' = total + top.count
                /\ argi' = argi + 1
                /\ stack' = <<>>
           ELSE /\ stack' = SubSeq(stack, 1, Len(stack) - 1)
                /\ UNCHANGED <<total, argi>>
    /\ pre' = t
    /\ call' = StepCall("closedir", stack[Len(stack)].root, stack[Len(stack)].count)
    /\ handles' = handles - 1
    /\ UNCHANGED <<t, ref, out, err, log, pc>>

\* check_directory: readdir returns NULL; closedir, and the count goes to
\* the caller's `count +=`
DirReturn ==
    /\ stack # <<>> /\ stack[Len(stack)].todo = {}
    /\ LET top == stack[Len(stack)]
       IN  IF Len(stack) = 1
           THEN /\ total' = total + top.count
                /\ argi' = argi + 1
                /\ stack' = <<>>
           ELSE /\ stack' = [SubSeq(stack, 1, Len(stack) - 1)
                               EXCEPT ![Len(stack) - 1].count = @ + top.count]
                /\ UNCHANGED <<total, argi>>
    /\ pre' = t
    /\ call' = StepCall("closedir", stack[Len(stack)].root, stack[Len(stack)].count)
    /\ handles' = handles - 1
    /\ UNCHANGED <<t, ref, out, err, log, pc>>

\* main after its loop: the count is printed under -c, the table deleted,
\* and the exit status is 1 if -q found no duplicate, else 0
MainExit ==
    /\ pc = "main" /\ stack = <<>> /\ argi > Len(paths)
    /\ pc' = "done"
    /\ out' = IF options.count THEN Append(out, [count |-> total]) ELSE out
    /\ call' = StepCall("exit", NoArg, IF total = 0 /\ options.quiet THEN 1 ELSE 0)
    /\ pre' = t
    /\ t' = table_delete(t)
    /\ UNCHANGED <<ref, argi, stack, total, err, log, handles>>

\* argv: the flags, then the paths
FlagLists == {<<>>, <<"-c">>, <<"-q">>, <<"-c", "-q">>}
PathLists ==
    { << <<"r">> >>, << <<"r", "a">> >>,
      << <<"r">>, <<"r">> >>, << <<"r", "a">>, <<"r">> >> }

\* the file systems: every content for every readable file, any set of
\* unreadable files, at most one directory that cannot be opened, /w/a
\* there or not
FileSystems ==
    {[content |-> c, readable |-> rd, openable |-> Dirs \ closed, exists |-> Nodes \ absent] :
        c \in [Files -> Contents],
        rd \in SUBSET Files,
        closed \in {{}} \cup {{d} : d \in ScanDirs},
        absent \in {{}, {Optional}}}

InitScan ==
    /\ fs \in {f \in FileSystems :
                 \A n \in Files \ f.readable : f.content[n] = ContentList[1]}
    /\ flags \in FlagLists
    /\ options = ParseFlags(flags)
    /\ paths \in PathLists
    /\ charSigned = TRUE
    /\ DEFAULT_CAPACITY = 1
    /\ t = table_create(Argind(flags))
    /\ pre = t
    /\ call = CreateCall
    /\ ref = [k \in DigestKeys |-> NULL]
    /\ t0 = NoArg /\ ret0 = NoArg
    /\ argi = 1 /\ stack = <<>> /\ total = 0
    /\ out = <<>> /\ err = <<>> /\ log = <<>>
    /\ pc = "main"
    /\ handles = 0 /\ NoHeap

scanFixed == <<charSigned, DEFAULT_CAPACITY, t0, ret0, fs, flags, options, paths, heap>>

NextScan ==
    \/ MainFile /\ UNCHANGED scanFixed
    \/ MainDir /\ UNCHANGED scanFixed
    \/ EntryFile /\ UNCHANGED scanFixed
    \/ EntryDir /\ UNCHANGED scanFixed
    \/ DirReturn /\ UNCHANGED scanFixed
    \/ MainExit /\ UNCHANGED scanFixed

SpecScan == InitScan /\ [][NextScan]_vars

\* where the scan is: every step of it moves main's loop, the stack of
\* check_directory calls or main's exit
scanPos == <<pc, argi, stack>>

(***************************************************************************)
(* What the properties below read off a scan.                              *)
(***************************************************************************)
\* the i-th file check_file was called on is a file that can be opened
Readable(i) == log[i].node \in Files /\ log[i].node \in fs.readable

ContentAt(i) == fs.content[log[i].node]

\* the first readable file visited that has the content of the i-th
FirstVisit(i) ==
    CHOOSE j \in 1..i :
        /\ Readable(j) /\ ContentAt(j) = ContentAt(i)
        /\ \A k \in 1..(j - 1) : ~(Readable(k) /\ ContentAt(k) = ContentAt(i))

\* the i-th file is an original if it is the first with its content, and
\* else a duplicate of the path under which that first one was visited
ClassedByFirstVisit(i) ==
    IF FirstVisit(i) = i
    THEN log[i].class = "Original" /\ log[i].ret = 0
    ELSE /\ log[i].class = "Duplicate" /\ log[i].ret = 1
         /\ log[i].of = log[FirstVisit(i)].path

Depth(node) == Len(AbsPath(node))

(***************************************************************************)
(* C8.  During a scan, once a digest is in the checksum table with a path, *)
(* the path stored under it never changes: a later readable file with that *)
(* digest is classified a duplicate of the stored, first-seen path, and    *)
(* its check_file leaves the table as it was.  ref[d] is the path of the   *)
(* first insert under d.                                                   *)
(***************************************************************************)
C8_FirstPathPermanent ==
    pc = "main" =>
        /\ \A d \in DigestKeys : ref[d] # NULL => table_search(t, d) = ref[d]
        /\ (call.op = "check_file" /\ Readable(Len(log))) =>
              LET d == HexDigest(ContentAt(Len(log)))
                  last == log[Len(log)]
              IN  table_search(pre, d) # NULL =>
                      /\ last.class = "Duplicate"
                      /\ last.of = ref[d].string
                      /\ call.ret = 1
                      /\ t = pre

\* a file has just been found a duplicate of another path while the table
\* holds two digests
C8_Witness ==
    /\ pc = "main" /\ call.op = "check_file" /\ log # <<>>
    /\ log[Len(log)].class = "Duplicate"
    /\ log[Len(log)].of # log[Len(log)].path
    /\ t.size = 2

(***************************************************************************)
(* C9.  For a scan from a single root, every readable file visited is an   *)
(* original if it is the first visited with its content and otherwise a    *)
(* duplicate of that first file, whatever the directories the two are in,  *)
(* and the count main ends with is the number of readable files visited    *)
(* less the number of distinct contents among them.                        *)
(***************************************************************************)
C9_CountAndFirstSeen ==
    Len(paths) = 1 =>
        /\ \A i \in DOMAIN log : Readable(i) => ClassedByFirstVisit(i)
        /\ pc = "done" =>
              total = Cardinality({i \in DOMAIN log : Readable(i)})
                      - Cardinality({ContentAt(i) : i \in {j \in DOMAIN log : Readable(j)}})

\* a finished scan of the one root r that counted two duplicates, one of
\* them deeper in the tree than the file it duplicates
C9_Witness ==
    /\ pc = "done" /\ Len(paths) = 1 /\ total = 2
    /\ \E i \in DOMAIN log :
          /\ log[i].class = "Duplicate"
          /\ Depth(log[i].node) > Depth(Resolve(log[i].of))

(***************************************************************************)
(* C10.  A file that cannot be opened is classified unreadable: its        *)
(* check_file returns 0 and leaves the checksum table as it was, and every *)
(* readable file, before or after it, is classified as the readable files  *)
(* alone decide.                                                           *)
(***************************************************************************)
C10_UnreadableSkipped ==
    /\ \A i \in DOMAIN log :
          ~Readable(i) => log[i].class = "Unreadable" /\ log[i].ret = 0
    /\ (call.op = "check_file" /\ ~Readable(Len(log))) => t = pre /\ call.ret = 0
    /\ \A i \in DOMAIN log : Readable(i) => ClassedByFirstVisit(i)

\* an unreadable file was visited between a file and its duplicate
C10_Witness ==
    \E i, j \in DOMAIN log :
        /\ i < j /\ ~Readable(i)
        /\ Readable(j) /\ log[j].class = "Duplicate" /\ FirstVisit(j) < i

(***************************************************************************)
(* What the properties below read off a scan with directories that cannot  *)
(* be opened.                                                              *)
(***************************************************************************)
\* every directory from dir up to the directory top can be opened
RECURSIVE AllOpenable(_, _)
AllOpenable(dir, top) ==
    /\ dir # NoNode
    /\ dir \in fs.openable
    /\ (dir = top \/ AllOpenable(NodeParent[dir], top))

\* the files a scan of the path p is to classify: p itself if it is no
\* directory, else the files below it that no unopenable directory hides
FilesToClassify(p) ==
    IF is_directory(p)
    THEN {f \in Files \cap fs.exists : AllOpenable(NodeParent[f], Resolve(p))}
    ELSE {Resolve(p)} \cap Files

\* the directories a scan of the path p reaches and cannot open
DirsToReport(p) ==
    IF ~is_directory(p) THEN {}
    ELSE {d \in (Dirs \cap fs.exists) \ fs.openable :
             d = Resolve(p) \/ AllOpenable(NodeParent[d], Resolve(p))}

\* the counts of the check_directory calls in progress
RECURSIVE CountsOnStack(_)
CountsOnStack(i) ==
    IF i = 0 THEN 0 ELSE stack[i].count + CountsOnStack(i - 1)

\* the scan's count is what its check_file calls returned, and nothing else
CountIsOfFiles ==
    total + CountsOnStack(Len(stack))
        = Cardinality({i \in DOMAIN log : log[i].ret = 1})

\* a directory that could not be opened was reported and left the table
UnopenableReported ==
    (call.op = "opendir" /\ call.ret = FALSE) =>
        /\ t = pre
        /\ err # <<>> /\ err[Len(err)] = UnableToOpen(call.key)

\* at the end, all the files to classify were, and no others
AllClassified ==
    pc = "done" =>
        /\ {log[i].node : i \in DOMAIN log}
              = UNION {FilesToClassify(paths[k]) : k \in DOMAIN paths}
        /\ {Resolve(err[i].unable) : i \in DOMAIN err}
              = UNION {DirsToReport(paths[k]) : k \in DOMAIN paths}

\* the directories above each node
RECURSIVE AncestorsOf(_)
AncestorsOf(node) ==
    IF NodeParent[node] = NoNode THEN {}
    ELSE {NodeParent[node]} \cup AncestorsOf(NodeParent[node])

Ancestors == [n \in Nodes |-> AncestorsOf(n)]

\* the steps a scan of these entries of one directory takes, at most: one
\* check_file or failed opendir for each, and for a directory that opens
\* its closedir and the steps of its own entries
StepsFor(nodes) ==
    LET below == {n \in fs.exists : n \in nodes \/ Ancestors[n] \cap nodes # {}}
    IN  Cardinality(below) + Cardinality(below \cap Dirs)

\* the entries a check_directory call in progress has yet to read
TodoNodes(frame) ==
    {n \in fs.exists : /\ NodeParent[n] # NoNode
                       /\ AbsPath(NodeParent[n]) = frame.path
                       /\ NodeName[n] \in frame.todo}

\* the steps left to the check_directory calls in progress: their entries
\* yet to read and their closedir
RECURSIVE StepsOnStack(_)
StepsOnStack(i) ==
    IF i = 0 THEN 0
    ELSE 1 + StepsFor(TodoNodes(stack[i])) + StepsOnStack(i - 1)

\* the steps left to main's loop from its k-th path on
RECURSIVE StepsForPaths(_)
StepsForPaths(k) ==
    IF k > Len(paths) THEN 0
    ELSE (IF is_directory(paths[k]) THEN StepsFor({Resolve(paths[k])}) ELSE 1)
         + StepsForPaths(k + 1)

\* the steps left to the scan
StepsLeft ==
    (IF pc = "main" THEN 1 ELSE 0)
    + StepsOnStack(Len(stack))
    + StepsForPaths(IF stack = <<>> THEN argi ELSE argi + 1)

\* the scan is over or has a step to take: main's loop has a path to check
\* or main exits, and a check_directory call reads an entry or returns
ScanCanStep ==
    \/ pc = "done"
    \/ pc = "main" /\ stack = <<>> /\ argi <= Len(paths)
    \/ pc = "main" /\ stack = <<>> /\ argi > Len(paths)
    \/ stack # <<>> /\ stack[Len(stack)].todo = {}
    \/ stack # <<>> /\ stack[Len(stack)].todo # {}

(***************************************************************************)
(* C11.  A directory that cannot be opened does not abort the scan: it is  *)
(* reported, adds 0 to the count and leaves the table as it was, and the   *)
(* scan goes on with the remaining entries and root arguments until it     *)
(* ends, having classified every file whose directories up to its root     *)
(* can all be opened.  It ends: until main has returned there is a step to *)
(* take, and every step leaves fewer steps to take.                        *)
(***************************************************************************)
C11_ScanCompletes ==
    /\ [](UnopenableReported /\ CountIsOfFiles /\ AllClassified)
    /\ [](ScanCanStep /\ StepsLeft >= 0 /\ (StepsLeft = 0 <=> pc = "done"))
    /\ [][StepsLeft' < StepsLeft]_scanPos

\* a finished scan that reported a directory below its root and found a
\* duplicate among the files it could reach
C11_Witness ==
    /\ pc = "done" /\ err # <<>>
    /\ Resolve(err[1].unable) # Resolve(<<"r">>)
    /\ \E i \in DOMAIN log : log[i].class = "Duplicate"

(***************************************************************************)
(* What the properties below read off the scan's output.                   *)
(***************************************************************************)
\* the lines for the duplicates among the first i files visited, in the
\* order of the visits
RECURSIVE LinesFor(_)
LinesFor(i) ==
    IF i = 0 THEN <<>>
    ELSE IF log[i].class = "Duplicate"
    THEN Append(LinesFor(i - 1), DuplicateLine(log[i].path, log[i].of))
    ELSE LinesFor(i - 1)

\* the readable files each path of main's loop has check_file called on
RECURSIVE ReadableVisits(_)
ReadableVisits(k) ==
    IF k = 0 THEN 0
    ELSE Cardinality(FilesToClassify(paths[k]) \cap fs.readable) + ReadableVisits(k - 1)

\* the count of duplicates the file system and the paths decide: the
\* readable files visited, less one for each content among them
DuplicatesToFind ==
    ReadableVisits(Len(paths))
    - Cardinality({fs.content[f] :
                     f \in UNION {FilesToClassify(paths[k]) : k \in DOMAIN paths}
                           \cap fs.readable})

DigitChars == <<"0", "1", "2", "3", "4", "5", "6", "7", "8", "9">>

\* "%ld" of a number that is not negative
RECURSIVE Digits(_)
Digits(n) ==
    IF n < 10 THEN <<DigitChars[n + 1]>>
    ELSE Append(Digits(n \div 10), DigitChars[(n % 10) + 1])

\* "%ld"
Decimal(n) == IF n < 0 THEN <<"-">> \o Digits(-n) ELSE Digits(n)

\* pair_format: "%s\t%s\n" for a string, "%s\t%ld\n" for a number
pair_format(p) ==
    IF p.type = Type_STRING
    THEN [key |-> p.key, text |-> p.value.string]
    ELSE [key |-> p.key, text |-> Decimal(p.value.number)]

\* the lines table_format writes for one bucket: its chain from the head
FormatBucket(tab, i) ==
    [j \in DOMAIN tab.buckets[i] |-> pair_format(tab.buckets[i][j])]

\* table_format: the buckets in index order
RECURSIVE FormatFrom(_, _)
FormatFrom(tab, i) ==
    IF i >= tab.capacity THEN <<>>
    ELSE FormatBucket(tab, i) \o FormatFrom(tab, i + 1)

table_format(tab) == IF tab = NULL THEN <<>> ELSE FormatFrom(tab, 0)

(***************************************************************************)
(* SpecInserts: table_insert calls only, on one table.  Two orders of the  *)
(* keys are kept beside the table, each key once and the latest first:     *)
(* log, by the key's last table_insert, and out, by the table_insert that  *)
(* created the key's pair.                                                 *)
(***************************************************************************)
\* the order with the key moved to its front
ToFront(order, key) ==
    LET Other(k) == k # key
    IN  <<key>> \o SelectSeq(order, Other)

InsertOnly ==
    \E k \in Keys, a \in ValueArgs :
        /\ Do(InsertCall(k, a))
        /\ log' = ToFront(log, k)
        /\ out' = IF Present(t, k) THEN out ELSE ToFront(out, k)

InitInserts == Init

NextInserts ==
    InsertOnly /\ UNCHANGED <<charSigned, DEFAULT_CAPACITY, t0, ret0, fs, flags,
                             options, paths, argi, stack, total, err, pc, heapVars>>

SpecInserts == InitInserts /\ [][NextInserts]_vars

\* the keys of the order that fall in the bucket
InBucket(order, tab, i) ==
    LET Falls(k) == Bucket(tab, k) = i
    IN  SelectSeq(order, Falls)

\* the keys of a chain, from its head
ChainKeys(tab, i) == [j \in DOMAIN tab.buckets[i] |-> tab.buckets[i][j].key]

(***************************************************************************)
(* C13.  After any sequence of table_insert calls, each chain lists its    *)
(* keys by the call that created their pair, the latest first: the first   *)
(* entry of a chain that is not empty, and the first line table_format     *)
(* writes for that bucket, is the key most recently inserted as a new key  *)
(* among the keys of the bucket.  An update leaves its pair where it was.  *)
(***************************************************************************)
C13_NewestNewKeyFirst ==
    \A i \in DOMAIN t.buckets :
        /\ ChainKeys(t, i) = InBucket(out, t, i)
        /\ t.buckets[i] # <<>> =>
              FormatBucket(t, i)[1].key = InBucket(out, t, i)[1]
        /\ (call.op = "insert" /\ Present(pre, call.key)) =>
              ChainKeys(t, i) = ChainKeys(pre, i)

\* the pair that has just been updated is not the first of its chain
C13_Witness ==
    /\ call.op = "insert" /\ Present(pre, call.key)
    /\ t.buckets[Bucket(t, call.key)][1].key # call.key
    /\ FormatBucket(t, Bucket(t, call.key))[1].key # call.key
    /\ Len(table_format(t)) = 3

\* C13 as stated: the first entry of each chain that is not empty is the key
\* most recently inserted or updated among the keys of the bucket
C13_LatestInsertOrUpdateFirst ==
    \A i \in DOMAIN t.buckets :
        t.buckets[i] # <<>> =>
            /\ t.buckets[i][1].key = InBucket(log, t, i)[1]
            /\ FormatBucket(t, i)[1].key = InBucket(log, t, i)[1]

(***************************************************************************)
(* SpecHeap: pair.c and table.c with their memory.  heap.mem is the blocks *)
(* handed out so far, a block's address its index (0 is NULL, an address   *)
(* is not handed out twice): who allocated it, whether it has been freed,  *)
(* and what it holds (a string, a Pair, the bucket array or the Table).    *)
(* heap.freed is the addresses passed to free, in order; heap.errors the   *)
(* memory errors so far; heap.tab the Table, 0 after table_delete.         *)
(***************************************************************************)
MaxBlocks == 10

\* the caller's key buffer: check_file's `char hex[BUFSIZ]`
HexBuf == 1

\* what a read of freed memory may find besides what was there
Garbage == "garbage"

\* the address the next allocation returns
NewAddr(hp) == Len(hp.mem) + 1

malloc(hp, owner, data) ==
    [hp EXCEPT !.mem = Append(@, [owner |-> owner, live |-> TRUE, data |-> data])]

\* free(p): free(NULL) does nothing; a second free of a block is an error
free(hp, p) ==
    IF p = 0 THEN hp
    ELSE IF hp.mem[p].live
    THEN [hp EXCEPT !.mem[p].live = FALSE, !.freed = Append(@, p)]
    ELSE [hp EXCEPT !.errors = @ \cup {"double free"}, !.freed = Append(@, p)]

\* free(value.string) of a Value: the union holds a string or a number
free_string(hp, value) ==
    IF "string" \in DOMAIN value THEN free(hp, value.string)
    ELSE [hp EXCEPT !.errors = @ \cup {"free of a number"}]

\* strdup(src): a new block with what is read at src; a read of a freed
\* block is an error and finds `junk`
strdup(hp, src, owner, junk) ==
    IF hp.mem[src].live THEN malloc(hp, owner, hp.mem[src].data)
    ELSE malloc([hp EXCEPT !.errors = @ \cup {"read after free"}], owner, junk)

\* the Table and its bucket array
TableOf(hp) == hp.mem[hp.tab].data
BucketsOf(hp) == hp.mem[TableOf(hp).buckets].data

\* pair_create that keeps the caller's string instead of a copy of it
heap_pair_create_keeps_pointer(hp, key, value, next, type, junk) ==
    LET p  == NewAddr(hp)
        h1 == malloc(hp, "table", NoArg)
        h2 == strdup(h1, key, "table", junk)
    IN  [h2 EXCEPT !.mem[p].data =
            [key |-> p + 1, value |-> value, type |-> type, next |-> next]]

\* pair_create: malloc of the Pair, strdup of the key, strdup of a string
\* value; the new Pair is at NewAddr(hp)
heap_pair_create(hp, key, value, next, type, junk) ==
    LET p  == NewAddr(hp)
        h1 == malloc(hp, "table", NoArg)
        h2 == strdup(h1, key, "table", junk)
        h3 == IF type = Type_STRING
              THEN strdup(h2, value.string, "table", junk) ELSE h2
        newVal == IF type = Type_STRING THEN [string |-> p + 2] ELSE value
    IN  [h3 EXCEPT !.mem[p].data =
            [key |-> p + 1, value |-> newVal, type |-> type, next |-> next]]

\* pair_update: free of the old string, then strdup of the new one
heap_pair_update(hp, p, value, type, junk) ==
    LET old == hp.mem[p].data
        h1 == IF old.type = Type_STRING THEN free_string(hp, old.value) ELSE hp
        h2 == IF type = Type_STRING
              THEN strdup(h1, value.string, "table", junk) ELSE h1
        newVal == IF type = Type_STRING THEN [string |-> NewAddr(h1)] ELSE value
    IN  [h2 EXCEPT !.mem[p].data.value = newVal, !.mem[p].data.type = type]

\* pair_delete: the key, the string of a STRING pair and the Pair are freed,
\* and so on down the chain if recursive
RECURSIVE heap_pair_delete(_, _, _)
heap_pair_delete(hp, p, recursive) ==
    IF p = 0 THEN hp
    ELSE LET temp == hp.mem[p].data
             h1 == free(hp, temp.key)
             h2 == IF temp.type = Type_STRING THEN free_string(h1, temp.value)
                   ELSE h1
             h3 == free(h2, p)
         IN  IF recursive
             THEN heap_pair_delete(h3, temp.next, TRUE)
             ELSE h3

\* the Pairs of a chain from p on
RECURSIVE HeapChain(_, _)
HeapChain(hp, p) ==
    IF p = 0 THEN <<>> ELSE <<p>> \o HeapChain(hp, hp.mem[p].data.next)

\* hash_from_data(key, strlen(key)) % t->capacity
HeapBucket(hp, key) == Bucket(TableOf(hp), hp.mem[key].data)

\* the for loop of table_insert, table_search and table_remove: the first
\* Pair of the key's chain whose key strcmp finds equal, 0 if none
HeapFind(hp, key) ==
    LET chain == HeapChain(hp, BucketsOf(hp)[HeapBucket(hp, key)].next)
        found == {i \in DOMAIN chain :
                    hp.mem[hp.mem[chain[i]].data.key].data = hp.mem[key].data}
    IN  IF found = {} THEN 0
        ELSE chain[CHOOSE i \in found : \A j \in found : i <= j]

\* table_create: calloc of the Table, then of the bucket array
heap_table_create(hp, capacity) ==
    LET tab == NewAddr(hp)
        cap == IF capacity = 0 THEN DEFAULT_CAPACITY ELSE capacity
        h1  == malloc(hp, "table", NoArg)
        h2  == malloc(h1, "table", [i \in 0..(cap - 1) |-> [next |-> 0]])
    IN  [h2 EXCEPT !.mem[tab].data =
                       [capacity |-> cap, size |-> 0, buckets |-> tab + 1],
                   !.tab = tab]

\* table_insert
heap_table_insert(hp, key, value, type, junk) ==
    LET bucket == HeapBucket(hp, key)
        curr   == HeapFind(hp, key)
        h1     == heap_pair_create(hp, key, value, BucketsOf(hp)[bucket].next,
                                   type, junk)
    IN  IF curr # 0 THEN heap_pair_update(hp, curr, value, type, junk)
        ELSE [h1 EXCEPT !.mem[TableOf(hp).buckets].data[bucket].next = NewAddr(hp),
                        !.mem[hp.tab].data.size = @ + 1]

\* table_search: the Pair whose value it returns the address of, 0 for NULL
heap_table_search(hp, key) == HeapFind(hp, key)

\* table_remove: prev is the bucket's sentinel or the Pair before curr
heap_table_remove(hp, key) ==
    LET bucket == HeapBucket(hp, key)
        chain  == HeapChain(hp, BucketsOf(hp)[bucket].next)
        curr   == HeapFind(hp, key)
        i      == CHOOSE j \in DOMAIN chain : chain[j] = curr
        next   == hp.mem[curr].data.next
        h1     == IF i = 1
                  THEN [hp EXCEPT !.mem[TableOf(hp).buckets].data[bucket].next = next]
                  ELSE [hp EXCEPT !.mem[chain[i - 1]].data.next = next]
        h2     == heap_pair_delete(h1, curr, FALSE)
    IN  IF curr = 0 THEN [heap |-> hp, ret |-> FALSE]
        ELSE [heap |-> [h2 EXCEPT !.mem[hp.tab].data.size = @ - 1], ret |-> TRUE]

\* table_delete's loop from bucket i on
RECURSIVE DeleteChains(_, _)
DeleteChains(hp, i) ==
    IF i >= TableOf(hp).capacity THEN hp
    ELSE DeleteChains(heap_pair_delete(hp, BucketsOf(hp)[i].next, TRUE), i + 1)

\* table_delete that frees the bucket array before the chains
heap_table_delete_buckets_first(hp) ==
    LET h1 == free(hp, TableOf(hp).buckets)
        h2 == DeleteChains(h1, 0)
        h3 == free(h2, hp.tab)
    IN  [h3 EXCEPT !.tab = 0]

\* table_delete: every chain, then the bucket array, then the Table
heap_table_delete(hp) ==
    LET h1 == DeleteChains(hp, 0)
        h2 == free(h1, TableOf(hp).buckets)
        h3 == free(h2, hp.tab)
    IN  [h3 EXCEPT !.tab = 0]

\* what the caller reads through the Value* of table_search: NULL, the
\* number, or the string the value points to
ValueRead(hp, p) ==
    IF p = 0 THEN NULL
    ELSE IF hp.mem[p].data.type = Type_STRING
    THEN [string |-> hp.mem[hp.mem[p].data.value.string].data]
    ELSE hp.mem[p].data.value

(***************************************************************************)
(* The caller's steps.  The key of every call is written to the caller's   *)
(* one key buffer first, over the key of the call before.                  *)
(***************************************************************************)
\* the keys and capacities of SpecHeap: "a" and "b", in one chain of a table
\* of one bucket and in two chains of a table of two
HeapKeys == {KeyList[1], KeyList[2]}
HeapCapacities == {1, 2}

WriteHex(hp, k) == [hp EXCEPT !.mem[HexBuf].data = k]

HeapCall(op, k, value, type, r) ==
    [op |-> op, key |-> k, value |-> value, type |-> type, ret |-> r]

\* as check_file: val.string = strdup(path); table_insert(checksums, hex,
\* val, STRING); free(val.string)
HeapInsertText ==
    \E k \in HeapKeys, s \in Texts :
        LET h0  == WriteHex(heap, k)
            val == [string |-> NewAddr(h0)]
            h1  == malloc(h0, "caller", s)
            h2  == heap_table_insert(h1, HexBuf, val, Type_STRING, Garbage)
        IN  /\ heap.tab # 0
            /\ Len(heap.mem) + (IF HeapFind(h0, HexBuf) # 0 THEN 2 ELSE 4) <= MaxBlocks
            /\ heap' = free(h2, val.string)
            /\ call' = HeapCall("insert", k, [string |-> s], Type_STRING, NoArg)
            /\ ref' = [ref EXCEPT ![k] = [string |-> s]]

\* table_insert(t, key, val, NUMBER)
HeapInsertNumber ==
    \E k \in HeapKeys, n \in Numbers :
        /\ heap.tab # 0
        /\ Len(heap.mem) + (IF HeapFind(WriteHex(heap, k), HexBuf) # 0 THEN 0 ELSE 2)
              <= MaxBlocks
        /\ heap' = heap_table_insert(WriteHex(heap, k), HexBuf, [number |-> n],
                                     NUMBER, Garbage)
        /\ call' = HeapCall("insert", k, [number |-> n], NUMBER, NoArg)
        /\ ref' = [ref EXCEPT ![k] = [number |-> n]]

\* v = table_search(t, key); table_insert(t, key, *v, type of the entry):
\* the value passed is the one stored, a string value the stored pointer
HeapInsertFound ==
    \E k \in HeapKeys, found \in BOOLEAN :
        LET h0 == WriteHex(heap, k)
            v  == heap_table_search(h0, HexBuf)
            \* a read of the freed string finds it as it was, or not
            junk == IF found /\ h0.mem[v].data.type = Type_STRING
                    THEN h0.mem[h0.mem[v].data.value.string].data
                    ELSE Garbage
        IN  /\ heap.tab # 0 /\ Len(heap.mem) + 1 <= MaxBlocks
            /\ v # 0
            /\ heap' = heap_table_insert(h0, HexBuf, h0.mem[v].data.value,
                                         h0.mem[v].data.type, junk)
            /\ call' = HeapCall("insert found", k, ValueRead(h0, v),
                                h0.mem[v].data.type, NoArg)
            /\ ref' = ref

HeapRemove ==
    \E k \in HeapKeys :
        LET r == heap_table_remove(WriteHex(heap, k), HexBuf)
        IN  /\ heap.tab # 0
            /\ heap' = r.heap
            /\ call' = HeapCall("remove", k, NoArg, NoArg, r.ret)
            /\ ref' = [ref EXCEPT ![k] = NULL]

HeapDelete ==
    /\ heap.tab # 0
    /\ heap' = heap_table_delete(heap)
    /\ call' = HeapCall("delete", NoArg, NoArg, NoArg, NULL)
    /\ UNCHANGED ref

\* the caller's key buffer, then table_create(capacity)
InitHeap ==
    /\ charSigned = TRUE
    /\ DEFAULT_CAPACITY = 1
    /\ \E capacity \in HeapCapacities :
          heap = heap_table_create(
                     [mem |-> <<[owner |-> "caller", live |-> TRUE, data |-> <<>>]>>,
                      freed |-> <<>>, errors |-> {}, tab |-> 0],
                     capacity)
    /\ call = CreateCall
    /\ pre = {}
    /\ ref = [k \in HeapKeys |-> NULL]
    /\ t = NoArg /\ t0 = NoArg /\ ret0 = NoArg
    /\ NoScan
    /\ handles = 0

heapFixed == <<t, charSigned, DEFAULT_CAPACITY, t0, ret0, scanVars, handles>>

\* pre, in SpecOwned: the kinds of update made so far, <<the type the pair
\* had, the type passed>>
NoteUpdate ==
    LET h0 == WriteHex(heap, call'.key)
        p  == HeapFind(h0, HexBuf)
    IN  pre' = IF p = 0 THEN pre ELSE pre \cup {<<h0.mem[p].data.type, call'.type>>}

\* the calls of a caller that passes memory of its own
NextOwned ==
    \/ HeapInsertText /\ NoteUpdate /\ UNCHANGED heapFixed
    \/ HeapInsertNumber /\ NoteUpdate /\ UNCHANGED heapFixed
    \/ HeapRemove /\ UNCHANGED <<heapFixed, pre>>
    \/ HeapDelete /\ UNCHANGED <<heapFixed, pre>>

SpecOwned == InitHeap /\ [][NextOwned]_vars

\* and those of a caller that also passes back what table_search returned
NextHeap ==
    \/ HeapInsertText /\ UNCHANGED <<heapFixed, pre>>
    \/ HeapInsertNumber /\ UNCHANGED <<heapFixed, pre>>
    \/ HeapInsertFound /\ UNCHANGED <<heapFixed, pre>>
    \/ HeapRemove /\ UNCHANGED <<heapFixed, pre>>
    \/ HeapDelete /\ UNCHANGED <<heapFixed, pre>>

SpecHeap == InitHeap /\ [][NextHeap]_vars

(***************************************************************************)
(* What the properties below read off the memory.                          *)
(***************************************************************************)
\* the Pairs linked in the table
TablePairs(hp) ==
    UNION {{HeapChain(hp, BucketsOf(hp)[i].next)[j] :
               j \in DOMAIN HeapChain(hp, BucketsOf(hp)[i].next)} :
           i \in DOMAIN BucketsOf(hp)}

\* the blocks a Pair points to: its key, and its string if it has one
KeyBlock(hp, p) == hp.mem[p].data.key
StringBlocks(hp, p) ==
    IF hp.mem[p].data.type = Type_STRING THEN {hp.mem[p].data.value.string} ELSE {}

\* what table_search returns for the key k, read by the caller
SearchRead(hp, k) ==
    ValueRead(hp, heap_table_search(WriteHex(hp, k), HexBuf))

\* the blocks the caller allocated, its key buffer among them
CallerBlocks(hp) == {a \in DOMAIN hp.mem : hp.mem[a].owner = "caller"}

(***************************************************************************)
(* C14.  The key and the string of every entry are blocks the table        *)
(* allocated itself, live, and shared with no other entry: no entry points *)
(* into memory of the caller.  So table_search(K) goes on returning what   *)
(* was last inserted for K after the caller has freed its string and       *)
(* written another key over its key buffer.                                *)
(***************************************************************************)
C14_CopiesIndependent ==
    heap.tab # 0 =>
        /\ \A p \in TablePairs(heap) :
              \A a \in {KeyBlock(heap, p)} \cup StringBlocks(heap, p) :
                  /\ a \notin CallerBlocks(heap)
                  /\ heap.mem[a].live
                  /\ \A q \in TablePairs(heap) \ {p} :
                        a \notin {KeyBlock(heap, q)} \cup StringBlocks(heap, q)
        /\ \A p \in TablePairs(heap) :
              KeyBlock(heap, p) \notin StringBlocks(heap, p)
        /\ \A k \in HeapKeys : SearchRead(heap, k) = ref[k]
        /\ heap.errors = {}

\* an entry holds a string whose original the caller has freed, and the
\* caller's key buffer has another key in it
C14_Witness ==
    /\ heap.tab # 0
    /\ \E k \in HeapKeys :
          /\ ref[k] # NULL /\ "string" \in DOMAIN ref[k]
          /\ heap.mem[HexBuf].data # k
    /\ \E a \in CallerBlocks(heap) : ~heap.mem[a].live
    /\ \A a \in CallerBlocks(heap) \ {HexBuf} : ~heap.mem[a].live

(***************************************************************************)
(* C15.  As stated: in one run, whatever the list of root paths, no file   *)
(* is classified twice, so none is classified an original and later a      *)
(* duplicate.                                                              *)
(***************************************************************************)
C15_ClassifiedOnce ==
    /\ \A i, j \in DOMAIN log : i < j => log[i].node # log[j].node
    /\ \A i, j \in DOMAIN log :
          (i < j /\ log[i].node = log[j].node) =>
              ~(log[i].class = "Original" /\ log[j].class = "Duplicate")

\* the path of the node as check_directory is to compose it from the root
\* path p as supplied: p, a separator and an entry name for each level
\* down from p to the node
ComposedPath(p, node) ==
    p \o SubSeq(AbsPath(node), Len(AbsPath(Resolve(p))) + 1, Len(AbsPath(node)))

(***************************************************************************)
(* C16.  As stated: every path check_directory builds, and so every path   *)
(* check_file is called on, stores in the table or prints, is the root     *)
(* path as supplied followed by the entry names down to the file, whatever *)
(* the working directory holds under the bare entry names; and every       *)
(* directory entered is entered under such a path.                         *)
(***************************************************************************)
C16_PathAsSupplied ==
    /\ \A i \in DOMAIN log :
          \E k \in DOMAIN paths :
              log[i].path = ComposedPath(paths[k], log[i].node)
    /\ \A i \in DOMAIN stack :
          \E k \in DOMAIN paths :
              stack[i].root = ComposedPath(paths[k], Resolve(stack[i].root))
    /\ \A i \in DOMAIN out :
          "path" \in DOMAIN out[i] =>
              \E k \in DOMAIN paths :
                  out[i].path = ComposedPath(paths[k], Resolve(out[i].path))

(***************************************************************************)
(* C17.  Every DIR stream opendir returned to check_directory and every    *)
(* FILE stream fopen returned to hash_from_file is closed before that call *)
(* returns, whether the file was read, an open failed or the descent below *)
(* a directory has ended: the streams open are, at every moment, one for   *)
(* each check_directory call in progress, and none when a call made by     *)
(* main has returned.                                                      *)
(***************************************************************************)
C17_HandlesClosed ==
    /\ handles = Len(stack)
    /\ stack = <<>> => handles = 0

\* a finished scan that read a file three directories down, met a file it
\* could not read and a directory it could not open
C17_Witness ==
    /\ pc = "done" /\ handles = 0
    /\ err # <<>>
    /\ \E i, j \in DOMAIN log :
          /\ ~Readable(i)
          /\ Readable(j) /\ Depth(log[j].node) >= 5

\* the blocks the table allocated
TableBlocks(hp) == {a \in DOMAIN hp.mem : hp.mem[a].owner = "table"}

\* the blocks the table holds: the Table, the bucket array, the Pairs
\* linked in it, their keys and their strings
HeldBlocks(hp) ==
    {hp.tab, TableOf(hp).buckets}
    \cup TablePairs(hp)
    \cup {KeyBlock(hp, p) : p \in TablePairs(hp)}
    \cup UNION {StringBlocks(hp, p) : p \in TablePairs(hp)}

\* the calls of free on the address
FreesOf(hp, a) == {i \in DOMAIN hp.freed : hp.freed[i] = a}

(***************************************************************************)
(* C18.  Through any inserts, updates of every kind and removes, a block   *)
(* the table allocated is live exactly while the table holds it and is     *)
(* freed once when it no longer does, never twice, and no number is passed *)
(* to free as a string.  After table_delete every block the table          *)
(* allocated has been freed exactly once, the bucket array after every     *)
(* Pair, key and string, and the Table last.                               *)
(***************************************************************************)
C18_ReleasedOnce ==
    /\ heap.errors = {}
    /\ \A a \in TableBlocks(heap) :
          /\ Cardinality(FreesOf(heap, a)) <= 1
          /\ heap.mem[a].live <=> FreesOf(heap, a) = {}
    /\ heap.tab # 0 =>
          {a \in TableBlocks(heap) : heap.mem[a].live} = HeldBlocks(heap)
    /\ heap.tab = 0 =>
          LET n   == Len(heap.freed)
              tab == heap.freed[n]
          IN  /\ \A a \in TableBlocks(heap) : Cardinality(FreesOf(heap, a)) = 1
              /\ "capacity" \in DOMAIN heap.mem[tab].data
              /\ heap.freed[n - 1] = heap.mem[tab].data.buckets

\* table_delete has run after updates of all four kinds
C18_Witness ==
    /\ heap.tab = 0 /\ call.op = "delete"
    /\ pre = {Type_STRING, NUMBER} \X {Type_STRING, NUMBER}
    /\ Len(heap.freed) >= 7

(***************************************************************************)
(* SpecHash: hash_from_data called once on some bytes.  call holds the     *)
(* bytes and, after the call, the hash returned.                           *)
(***************************************************************************)
MaxDataLen == 3

\* the byte values of the inputs: NUL, 'a', and two of 128 or more
DataBytes == {0, 97, 128, 255}

RECURSIVE DataOfLen(_)
DataOfLen(n) ==
    IF n = 0 THEN {<<>>}
    ELSE {Append(d, b) : d \in DataOfLen(n - 1), b \in DataBytes}

DataInputs == UNION {DataOfLen(n) : n \in 0..MaxDataLen}

HashCall(data, r) ==
    [op |-> "hash_from_data", key |-> data, value |-> NoArg, type |-> NoArg,
     ret |-> r]

InitHash ==
    /\ charSigned \in BOOLEAN
    /\ DEFAULT_CAPACITY = 1
    /\ \E data \in DataInputs : call = HashCall(data, NoArg)
    /\ t = NoArg /\ pre = NoArg /\ ref = NoArg
    /\ t0 = NoArg /\ ret0 = NoArg
    /\ NoScan
    /\ handles = 0 /\ NoHeap

HashFromData ==
    /\ call.ret = NoArg
    /\ call' = HashCall(call.key, hash_from_data(call.key, Len(call.key), charSigned))
    /\ UNCHANGED <<t, pre, ref, charSigned, DEFAULT_CAPACITY, t0, ret0, scanVars,
                   heapVars>>

NextHash == HashFromData

SpecHash == InitHash /\ [][NextHash]_vars

\* the FNV-1 hash the comment of hash_from_data names: for each byte, the
\* hash is multiplied by FNV_PRIME and then XORed with the byte, 0..255
RECURSIVE FNV1Loop(_, _, _)
FNV1Loop(data, i, hash) ==
    IF i > Len(data) THEN hash
    ELSE LET next == Xor64(Mul64(hash, FNV_PRIME), CharToU64(data[i], FALSE))
         IN  IF Len(next) = U64Bytes THEN FNV1Loop(data, i + 1, next) ELSE next

FNV1(data) == FNV1Loop(data, 1, FNV_OFFSET_BASIS)

(***************************************************************************)
(* C19.  As stated: hash_from_data returns the 64-bit FNV-1 hash of its    *)
(* bytes, each byte multiplied in before it is XORed, as a value 0..255,   *)
(* whatever the bytes.                                                     *)
(***************************************************************************)
C19_IsFNV1 ==
    (call.op = "hash_from_data" /\ call.ret # NoArg) => call.ret = FNV1(call.key)

(***************************************************************************)
(* C20.  As stated: no table_insert on a key that is in the table reads    *)
(* memory the same call has freed, whatever the value passed, the string   *)
(* table_search returned for that key included; and after the call with    *)
(* that string the entry holds a live copy of what it held before.         *)
(***************************************************************************)
C20_NoReadAfterFree ==
    /\ "read after free" \notin heap.errors
    /\ (call.op = "insert found" /\ heap.tab # 0) =>
          /\ SearchRead(heap, call.key) = call.value
          /\ \A p \in TablePairs(heap) :
                \A a \in StringBlocks(heap, p) : heap.mem[a].live

=============================================================================
